---- MODULE Spec2Model ----
(***************************************************************************)
(* A model of the kvs repository: the log engine (src/src/engine/          *)
(* kv_store.rs), the engine sentinel (src/src/engine/mod.rs), the sled     *)
(* adapter (src/src/engine/sled_engine.rs), the server and client          *)
(* (src/src/net) and the shared-queue thread pool (src/src/thread_pool).  *)
(***************************************************************************)
EXTENDS Integers, Sequences, FiniteSets, TLC

(***************************************************************************)
(* Inputs.  Keys are one byte long; BTreeMap iterates them in KeyOrder.    *)
(* Values come in two sizes: "m" is a 600 000 byte string (two such        *)
(* records do not fit under FILE_SIZE_LIMIT) and "h" a 6 000 000 byte      *)
(* string (one record alone exceeds FILE_SIZE_LIMIT, two exceed            *)
(* 10 * FILE_SIZE_LIMIT).                                                  *)
(***************************************************************************)
Keys == {"a", "b"}

KeyOrder == <<"a", "b">>

Vals == {"m", "h"}

ValLen(v) == CASE v = "m" -> 600000 [] v = "h" -> 6000000 [] OTHER -> 1

\* kv_store.rs:13.  Scaled down from 10_000 so that a run of a few writes
\* exceeds it; every use compares a counter of overwrites against it.
COMPACTION_THRESHOLD == 2

\* kv_store.rs:14
FILE_SIZE_LIMIT == 1048576

\* Bounds of the model.
MaxOps == 7

(***************************************************************************)
(* Commands and their serde_json encoding.  A log file is the sequence of  *)
(* the records written to it; "Partial" stands for the first n bytes of a  *)
(* record whose tail was cut off.                                          *)
(***************************************************************************)
SetCmd(k, v) == [op |-> "Set", key |-> k, val |-> v, n |-> 0]

RmCmd(k) == [op |-> "Rm", key |-> k, val |-> "-", n |-> 0]

PartialRec(n) == [op |-> "Partial", key |-> "-", val |-> "-", n |-> n]

NoCmd == [op |-> "None", key |-> "-", val |-> "-", n |-> 0]

\* {"Set":["k","v"]} is 16 + |v| bytes and {"Rm":"k"} is 10 bytes.
CmdLen(c) ==
    CASE c.op = "Set" -> 16 + ValLen(c.val)
      [] c.op = "Rm" -> 10
      [] OTHER -> c.n

RECURSIVE FileSize(_)
FileSize(f) == IF f = <<>> THEN 0 ELSE CmdLen(Head(f)) + FileSize(Tail(f))

OffsetOf(f, i) == FileSize(SubSeq(f, 1, i - 1))

\* reader.seek(Start(offset)); serde_json::from_reader(reader.take(len)):
\* succeeds exactly when one whole record occupies [offset, offset+len).
ReadAt(f, offset, len) ==
    LET hit == {i \in 1..Len(f) : /\ OffsetOf(f, i) = offset
                                  /\ CmdLen(f[i]) = len
                                  /\ f[i].op # "Partial"}
    IN IF hit # {} THEN [ok |-> "Ok", cmd |-> f[CHOOSE i \in hit : TRUE]]
       ELSE [ok |-> "Err", cmd |-> NoCmd]

LogIndex(file_index, offset, len) ==
    [has |-> TRUE, file_index |-> file_index, offset |-> offset, len |-> len]

NoIndex == [has |-> FALSE, file_index |-> 0, offset |-> 0, len |-> 0]

Res(kind, val) == [kind |-> kind, val |-> val]

(***************************************************************************)
(* KvStoreInner.  wal_logs and active are the files on disk, which the     *)
(* readers and the writer of the running instance refer to.                *)
(***************************************************************************)
EmptyDir ==
    [key_index |-> [k \in Keys |-> NoIndex],
     index_scanned |-> 0,
     wal_logs |-> <<>>,
     active |-> <<>>,
     active_redundant |-> 0,
     poisoned |-> FALSE]

\* KvStoreInner::open after the sentinel check: the index starts empty and
\* every file is still to be scanned.
KvOpen(st) ==
    [st EXCEPT !.key_index = [k \in Keys |-> NoIndex],
               !.index_scanned = Len(st.wal_logs) + 1,
               !.active_redundant = 0,
               !.poisoned = FALSE]

\* The reader is chosen by self.index_scanned, not by log_index.file_index.
ReadFromLog(st, li) ==
    IF li.file_index = Len(st.wal_logs)
    THEN ReadAt(st.active, li.offset, li.len)
    ELSE IF st.index_scanned >= Len(st.wal_logs)
         THEN [ok |-> "Panic", cmd |-> NoCmd]
         ELSE ReadAt(st.wal_logs[st.index_scanned + 1], li.offset, li.len)

LastOf(f, k) ==
    LET at == {i \in 1..Len(f) : f[i].key = k}
    IN IF at = {} THEN 0 ELSE CHOOSE i \in at : \A j \in at : j <= i

ImportNextLog(st) ==
    IF st.index_scanned = 0 THEN [ok |-> "Ok", st |-> st]
    ELSE LET n == st.index_scanned - 1
             st1 == [st EXCEPT !.index_scanned = n]
         IN IF n > Len(st.wal_logs) THEN [ok |-> "Panic", st |-> st1]
            ELSE LET f == IF n = Len(st.wal_logs) THEN st.active
                          ELSE st.wal_logs[n + 1]
                 IN IF \E i \in 1..Len(f) : f[i].op = "Partial"
                    THEN [ok |-> "Err", st |-> st1]
                    ELSE [ok |-> "Ok",
                          st |-> [st1 EXCEPT !.key_index =
                              [k \in Keys |->
                                 IF st.key_index[k].has \/ LastOf(f, k) = 0
                                 THEN st.key_index[k]
                                 ELSE LogIndex(n, OffsetOf(f, LastOf(f, k)),
                                               CmdLen(f[LastOf(f, k)]))]]]

ReadValue(st, li) ==
    LET r == ReadFromLog(st, li)
    IN IF r.ok # "Ok" THEN Res(r.ok, "-")
       ELSE IF r.cmd.op = "Set" THEN Res("Some", r.cmd.val)
       ELSE Res("None", "-")

RECURSIVE GetScan(_, _)
GetScan(st, key) ==
    IF st.index_scanned = 0 THEN [st |-> st, res |-> Res("None", "-")]
    ELSE LET im == ImportNextLog(st)
         IN IF im.ok # "Ok" THEN [st |-> im.st, res |-> Res(im.ok, "-")]
            ELSE IF im.st.key_index[key].has
                 THEN [st |-> im.st, res |-> ReadValue(im.st, im.st.key_index[key])]
                 ELSE GetScan(im.st, key)

\* A get that takes the entry of a removed key out of the index.
InnerGetErasesTombstone(st, key) ==
    IF st.key_index[key].has
    THEN LET v == ReadValue(st, st.key_index[key])
         IN [st |-> IF v.kind = "None" THEN [st EXCEPT !.key_index[key] = NoIndex]
                    ELSE st,
             res |-> v]
    ELSE GetScan(st, key)

InnerGet(st, key) ==
    IF st.key_index[key].has
    THEN [st |-> st, res |-> ReadValue(st, st.key_index[key])]
    ELSE GetScan(st, key)

RECURSIVE CompactLoop(_, _, _, _, _, _, _)
CompactLoop(self, i, nki, nf, cur_index, offset, prev) ==
    IF i > Len(KeyOrder)
    THEN [ok |-> "Ok",
          st |-> [self EXCEPT !.active = nf, !.active_redundant = 0,
                              !.key_index = nki]]
    ELSE LET k == KeyOrder[i]
             li == nki[k]
         IN IF ~(li.has /\ li.file_index = prev)
            THEN CompactLoop(self, i + 1, nki, nf, cur_index, offset, prev)
            ELSE LET split == offset + li.len >= FILE_SIZE_LIMIT
                     self1 == IF split
                              THEN [self EXCEPT !.wal_logs = Append(@, nf)]
                              ELSE self
                     nf1 == IF split THEN <<>> ELSE nf
                     cur1 == IF split THEN cur_index + 1 ELSE cur_index
                     off1 == IF split THEN 0 ELSE offset
                     r == ReadFromLog(self1, li)
                 IN IF r.ok # "Ok" THEN [ok |-> r.ok, st |-> self1]
                    ELSE CompactLoop(self1, i + 1,
                                     [nki EXCEPT ![k] = LogIndex(cur1, off1, li.len)],
                                     Append(nf1, r.cmd), cur1, off1 + li.len, prev)

MinorCompact(st) ==
    CompactLoop(st, 1, st.key_index, <<>>, Len(st.wal_logs), 0, Len(st.wal_logs))

\* One compaction, as the history records it.
CmpRec(pre, c) == [pre |-> pre, post |-> c.st, ok |-> c.ok]

AppendLog(st, cmd, key) ==
    LET offset == FileSize(st.active)
        file_index == Len(st.wal_logs)
        old == st.key_index[key]
        st1 == [st EXCEPT !.active = Append(@, cmd),
                          !.key_index[key] = LogIndex(file_index, offset, CmdLen(cmd))]
        redundant == old.has /\ old.file_index = file_index
        st2 == IF redundant THEN [st1 EXCEPT !.active_redundant = @ + 1] ELSE st1
        first == redundant /\ st2.active_redundant > COMPACTION_THRESHOLD
        c1 == IF first THEN MinorCompact(st2) ELSE [ok |-> "Ok", st |-> st2]
        h1 == IF first THEN <<CmpRec(st2, c1)>> ELSE <<>>
        second == c1.ok = "Ok" /\ offset > 10 * FILE_SIZE_LIMIT
        c2 == IF second THEN MinorCompact(c1.st) ELSE c1
        h2 == IF second THEN Append(h1, CmpRec(c1.st, c2)) ELSE h1
    IN [st |-> c2.st, res |-> Res(c2.ok, "-"), cmps |-> h2]

InnerSet(st, key, value) == AppendLog(st, SetCmd(key, value), key)

RECURSIVE RemoveScan(_, _)
RemoveScan(st, key) ==
    IF st.index_scanned = 0
    THEN [st |-> st, res |-> Res("KeyNotFound", "-"), cmps |-> <<>>]
    ELSE LET im == ImportNextLog(st)
         IN IF im.ok # "Ok"
            THEN [st |-> im.st, res |-> Res(im.ok, "-"), cmps |-> <<>>]
            ELSE IF im.st.key_index[key].has
                 THEN LET r == ReadFromLog(im.st, im.st.key_index[key])
                      IN IF r.ok # "Ok"
                         THEN [st |-> im.st, res |-> Res(r.ok, "-"), cmps |-> <<>>]
                         ELSE IF r.cmd.op = "Rm"
                              THEN [st |-> im.st, res |-> Res("KeyNotFound", "-"),
                                    cmps |-> <<>>]
                              ELSE AppendLog(im.st, RmCmd(key), key)
                 ELSE RemoveScan(im.st, key)

InnerRemove(st, key) ==
    IF st.key_index[key].has THEN AppendLog(st, RmCmd(key), key)
    ELSE RemoveScan(st, key)

\* impl KvsEngine for KvStore: lock().unwrap() panics on a poisoned mutex, and a
\* panic while the guard is held poisons it.
Locked(st, r) ==
    IF st.poisoned THEN [st |-> st, res |-> Res("Panic", "-"), cmps |-> <<>>]
    ELSE [st |-> [r.st EXCEPT !.poisoned = (r.res.kind = "Panic")],
          res |-> r.res, cmps |-> r.cmps]

KvGet(st, key) ==
    LET g == InnerGet(st, key)
    IN Locked(st, [st |-> g.st, res |-> g.res, cmps |-> <<>>])

KvSet(st, key, value) == Locked(st, InnerSet(st, key, value))

KvRemove(st, key) == Locked(st, InnerRemove(st, key))

(***************************************************************************)
(* The engine sentinel (engine/mod.rs) and the sled adapter.               *)
(***************************************************************************)
\* impl Display for EngineType
EngineTypeToString(t) == IF t = "Sled" THEN "sled" ELSE "kvs"

\* impl FromStr for EngineType
EngineTypeFromStr(s) ==
    CASE s = "kvs" -> "KvStore" [] s = "sled" -> "Sled" [] OTHER -> "WrongEngine"

\* A sentinel that is rewritten by every open instead of being checked.
TryAddEngineTypeNoCheck(file, engine_type) ==
    [ok |-> TRUE, file |-> EngineTypeToString(engine_type)]

\* A sentinel that is overwritten with the caller's engine before the open
\* is refused.
TryAddEngineTypeOverwrites(file, engine_type) ==
    IF file # ""
    THEN [ok |-> EngineTypeFromStr(file) = engine_type,
          file |-> EngineTypeToString(engine_type)]
    ELSE [ok |-> TRUE, file |-> EngineTypeToString(engine_type)]

\* file is the content of .engine, "" when the file does not exist.
TryAddEngineType(file, engine_type) ==
    IF file # ""
    THEN [ok |-> EngineTypeFromStr(file) = engine_type, file |-> file]
    ELSE [ok |-> TRUE, file |-> EngineTypeToString(engine_type)]

NoValue == "none"

SledGet(d, key) ==
    [db |-> d, res |-> IF d[key] = NoValue THEN Res("None", "-") ELSE Res("Some", d[key])]

SledSet(d, key, value) == [db |-> [d EXCEPT ![key] = value], res |-> Res("Ok", "-")]

SledRemove(d, key) ==
    [db |-> [d EXCEPT ![key] = NoValue],
     res |-> IF d[key] = NoValue THEN Res("KeyNotFound", "-") ELSE Res("Ok", "-")]

(***************************************************************************)
(* State.  store, engine_file and db are the directory and the running     *)
(* KvStore; handle is the engine the process holds.  last, cmps, acked,    *)
(* expect, written and owner are history: the last call and its result,    *)
(* the compactions it ran, per key the outcome of the latest write         *)
(* ("m"/"h": set acknowledged, "rm": remove acknowledged, "fail": the call *)
(* returned an error after it began to write; expect is the same within    *)
(* one session), the keys ever set, and the engine of the first open.      *)
(***************************************************************************)
VARIABLES store, engine_file, handle, db, last, cmps, acked, expect, written,
          owner, kept, nops

\* The bookkeeping of a single-caller session; store is the engine itself.
engRest == <<engine_file, handle, db, last, cmps, acked, expect, written,
             owner, kept, nops>>

engVars == <<store, engRest>>

(***************************************************************************)
(* SharedQueueThreadPool: the channel (pq holds the ids of the queued      *)
(* jobs), the threads that hold a ReceiverWrapper (wk), and whether the    *)
(* pool handle, which owns the Sender, is alive.  submitted, runs and      *)
(* spawn_panicked are history: the kind of each job passed to spawn, how   *)
(* often each job was run, and whether a send found the channel            *)
(* disconnected.                                                           *)
(***************************************************************************)
VARIABLES pq, wk, pool_alive, submitted, runs, spawn_panicked

poolVars == <<pq, wk, pool_alive, submitted, runs, spawn_panicked>>

(***************************************************************************)
(* KvsServer and its clients: the stop flag, the position of the acceptor  *)
(* thread (acc) and the stream it has accepted (acc_cur), the position of  *)
(* a stop_server call (stop_pc) and how many calls have returned (stops),  *)
(* the listener's queue of pending connections (backlog; 0 is the          *)
(* connection stop_server makes), and one record per client connection.    *)
(* pool_kind is the ThreadPool implementation the server was built with.   *)
(***************************************************************************)
VARIABLES stop_flag, acc, acc_cur, stop_pc, stops, backlog, conn, pool_kind

netVars == <<stop_flag, acc, acc_cur, stop_pc, stops, backlog, conn, pool_kind>>

(***************************************************************************)
(* Callers that share clones of one KvStore handle: th is each caller's    *)
(* call in progress, settled the value every later get of a key has to     *)
(* see ("?" while a write of the key is in progress or has failed), and    *)
(* ncalls the number of calls made.                                        *)
(***************************************************************************)
VARIABLES th, settled, ncalls

concVars == <<th, settled, ncalls>>

(***************************************************************************)
(* The wire codec (net/client.rs send / receive, net/server.rs receive /   *)
(* send): wire_msg is the Query or Response given to send, wire the frame  *)
(* it wrote to the stream, wire_got what receive returned from that frame. *)
(***************************************************************************)
VARIABLES wire_msg, wire, wire_got

codecVars == <<wire_msg, wire, wire_got>>

vars == <<engVars, poolVars, netVars, concVars, codecVars>>

NoOp == [op |-> "none", key |-> "-", val |-> "-", res |-> Res("Ok", "-")]

InitEngine ==
    /\ store = EmptyDir
    /\ engine_file = ""
    /\ handle = "none"
    /\ db = [k \in Keys |-> NoValue]
    /\ last = NoOp
    /\ cmps = <<>>
    /\ acked = [k \in Keys |-> "none"]
    /\ expect = [k \in Keys |-> "none"]
    /\ written = {}
    /\ owner = "none"
    /\ kept = [k \in Keys |-> "none"]
    /\ nops = 0

\* Number of worker threads given to SharedQueueThreadPool::new.
PoolSize == 2

MaxJobs == PoolSize + 1

\* Every job can panic and so add one thread.
MaxThreads == PoolSize + MaxJobs

\* SharedQueueThreadPool::new(PoolSize)
InitPool ==
    /\ pq = <<>>
    /\ wk = [w \in 1..MaxThreads |->
                [pc |-> IF w <= PoolSize THEN "recv" ELSE "unborn", job |-> 0]]
    /\ pool_alive = TRUE
    /\ submitted = <<>>
    /\ runs = [j \in 1..MaxJobs |-> 0]
    /\ spawn_panicked = FALSE

\* Connections clients may open.
MaxConns == 2

\* Calls of stop_server: one by the owner and the one Drop makes.
MaxStops == 2

NetKey == "a"

NetVal == "h"

\* impl ThreadPool for ...: a job that panics ends its thread and nothing
\* else (SharedQueueThreadPool, which replaces the thread, and
\* NaiveThreadPool, one thread per job), or goes to rayon's panic handler
\* (RayonThreadPool), which aborts the process when none was registered.
PoolKinds == {"SharedQueueThreadPool", "RayonThreadPool"}

\* Query (net/mod.rs)
Queries ==
    {[op |-> "get", key |-> NetKey, val |-> "-"],
     [op |-> "set", key |-> NetKey, val |-> NetVal],
     [op |-> "rm", key |-> NetKey, val |-> "-"]}

NoQuery == [op |-> "none", key |-> "-", val |-> "-"]

NoRes == Res("none", "-")

\* A connection nobody has opened yet.  ndec, ncall and nresp count the
\* requests handle decoded, the engine calls it made and the responses it
\* wrote; nsent and nread the requests the client framed and the responses
\* it read.
NoConn ==
    [cli |-> "init", srv |-> "none", query |-> NoQuery,
     eres |-> NoRes, resp |-> NoRes, cres |-> NoRes,
     ndec |-> 0, ncall |-> 0, nresp |-> 0, nsent |-> 0, nread |-> 0]

\* KvsServer::init with the pool kinds: nothing runs yet, no client has
\* connected.
InitNetWith(kinds) ==
    /\ stop_flag = FALSE
    /\ acc = "idle"
    /\ acc_cur = 0
    /\ stop_pc = "idle"
    /\ stops = 0
    /\ backlog = <<>>
    /\ conn = [c \in 1..MaxConns |-> NoConn]
    /\ pool_kind \in kinds

InitNet == InitNetWith({"SharedQueueThreadPool"})

Callers == {1, 2}

\* Calls made through the clones, all callers together.
MaxCalls == 5

NoCall == [pc |-> "idle", op |-> "none", key |-> "-", val |-> "-",
           exp |-> "?", alone |-> TRUE, cmp |-> FALSE, res |-> NoRes]

InitConc ==
    /\ th = [t \in Callers |-> NoCall]
    /\ settled = [k \in Keys |-> "none"]
    /\ ncalls = 0

(***************************************************************************)
(* The wire format (net/mod.rs, send and receive of net/client.rs and      *)
(* net/server.rs).  A String is a sequence of chunks: "a" is the byte a,   *)
(* "q" a double quote, which serde_json escapes, and "X" a run of          *)
(* 4 294 967 296 bytes x.  A payload is a sequence of tokens: the fixed    *)
(* parts of the JSON text, and the bytes of the string literals.           *)
(***************************************************************************)
Chunks == {"a", "q", "X"}

\* Chunks per String.
MaxStr == 2

Strs == UNION {[1..n -> Chunks] : n \in 0..MaxStr}

\* enum Query and enum Response; Ok(None) and Ok(Some(s)) are the two tags
\* OkNone and OkSome.
Msg(enum, tag, a, b) == [enum |-> enum, tag |-> tag, a |-> a, b |-> b]

NoMsg == Msg("none", "none", <<>>, <<>>)

QueryMsgs ==
    {Msg("Query", "Get", k, <<>>) : k \in Strs}
        \cup {Msg("Query", "Rm", k, <<>>) : k \in Strs}
        \cup {Msg("Query", "Set", k, v) : k \in Strs, v \in Strs}

ResponseMsgs ==
    {Msg("Response", t, <<>>, <<>>) : t \in {"Success", "KeyNotFound", "Err", "OkNone"}}
        \cup {Msg("Response", "OkSome", v, <<>>) : v \in Strs}

\* The bytes of a token, the run X left out: LGet is {"Get": and LSet
\* {"Set":[ and LRm {"Rm": and LOk {"Ok": and RSet ]} and the unit variants
\* are JSON strings.
TokLen(t) ==
    CASE t = "LGet" -> 7 [] t = "LSet" -> 8 [] t = "LRm" -> 6 [] t = "LOk" -> 6
      [] t = "RSet" -> 2 [] t = "RBrace" -> 1 [] t = "Comma" -> 1 [] t = "Null" -> 4
      [] t = "Success" -> 9 [] t = "KeyNotFound" -> 13 [] t = "Err" -> 5
      [] t = "Quote" -> 1 [] t = "Bslash" -> 1 [] t = "a" -> 1
      [] OTHER -> 0

RECURSIVE SmallLen(_)
SmallLen(p) == IF p = <<>> THEN 0 ELSE TokLen(Head(p)) + SmallLen(Tail(p))

\* Vec::len(), a usize: hi * 2^32 + lo, with lo < 2^32.
ByteLen(p) ==
    [hi |-> Cardinality({i \in 1..Len(p) : p[i] = "X"}), lo |-> SmallLen(p)]

\* len as u32: the low 32 bits.
AsU32(n) == n.lo

\* u32::to_be_bytes and u32::from_be_bytes
ToBeBytes(n) ==
    <<(n \div 16777216) % 256, (n \div 65536) % 256, (n \div 256) % 256, n % 256>>

FromBeBytes(b) == b[1] * 16777216 + b[2] * 65536 + b[3] * 256 + b[4]

\* serde_json's string literal: the quote is escaped.
RECURSIVE SerStrBody(_)
SerStrBody(s) ==
    IF s = <<>> THEN <<>>
    ELSE (IF Head(s) = "q" THEN <<"Bslash", "Quote">> ELSE <<Head(s)>>)
             \o SerStrBody(Tail(s))

SerStr(s) == <<"Quote">> \o SerStrBody(s) \o <<"Quote">>

\* serde_json::to_vec of a Query or a Response
ToVec(m) ==
    CASE m.tag = "Get" -> <<"LGet">> \o SerStr(m.a) \o <<"RBrace">>
      [] m.tag = "Rm" -> <<"LRm">> \o SerStr(m.a) \o <<"RBrace">>
      [] m.tag = "Set" -> <<"LSet">> \o SerStr(m.a) \o <<"Comma">> \o SerStr(m.b)
                              \o <<"RSet">>
      [] m.tag = "OkNone" -> <<"LOk", "Null", "RBrace">>
      [] m.tag = "OkSome" -> <<"LOk">> \o SerStr(m.a) \o <<"RBrace">>
      [] OTHER -> <<m.tag>>

\* send: write_all(&(serialized.len() as u32).to_be_bytes()), then
\* write_all(&serialized).
SendFrame(m) == [len |-> ToBeBytes(AsU32(ByteLen(ToVec(m)))), body |-> ToVec(m)]

NoFrame == [len |-> <<0, 0, 0, 0>>, body |-> <<>>]

\* read_exact(&mut msg) of n bytes succeeds when the stream holds n bytes.
Available(p, n) == ByteLen(p).hi > 0 \/ ByteLen(p).lo >= n

\* The first n bytes of the stream, n < 2^32: a token that does not fit
\* whole is cut.
RECURSIVE TakeBytes(_, _)
TakeBytes(p, n) ==
    IF p = <<>> \/ n = 0 THEN <<>>
    ELSE IF Head(p) # "X" /\ TokLen(Head(p)) <= n
         THEN <<Head(p)>> \o TakeBytes(Tail(p), n - TokLen(Head(p)))
         ELSE <<"Part">>

ParseFail == [ok |-> FALSE, s |-> <<>>, next |-> 0]

\* serde_json reading a string literal from after its opening quote.
RECURSIVE ParseStrBody(_, _, _)
ParseStrBody(p, i, sofar) ==
    IF i > Len(p) THEN ParseFail
    ELSE IF p[i] = "Quote" THEN [ok |-> TRUE, s |-> sofar, next |-> i + 1]
    ELSE IF p[i] = "Bslash"
         THEN (IF i + 1 <= Len(p) /\ p[i + 1] = "Quote"
               THEN ParseStrBody(p, i + 2, Append(sofar, "q"))
               ELSE ParseFail)
    ELSE IF p[i] \in {"a", "X"} THEN ParseStrBody(p, i + 1, Append(sofar, p[i]))
    ELSE ParseFail

ParseStr(p, i) ==
    IF i <= Len(p) /\ p[i] = "Quote" THEN ParseStrBody(p, i + 1, <<>>) ELSE ParseFail

DecodeErr == [ok |-> FALSE, msg |-> NoMsg]

Decoded(m) == [ok |-> TRUE, msg |-> m]

\* The payload is tag, one string literal and the closing token, and
\* nothing else.
OneStr(p, enum, tag, close) ==
    LET r == ParseStr(p, 2)
    IN IF r.ok /\ r.next = Len(p) /\ p[r.next] = close
       THEN Decoded(Msg(enum, tag, r.s, <<>>))
       ELSE DecodeErr

\* serde_json::from_slice::<Query> and ::<Response>
FromSlice(enum, p) ==
    IF p = <<>> THEN DecodeErr
    ELSE IF enum = "Query"
    THEN (IF p[1] = "LGet" THEN OneStr(p, "Query", "Get", "RBrace")
          ELSE IF p[1] = "LRm" THEN OneStr(p, "Query", "Rm", "RBrace")
          ELSE IF p[1] = "LSet"
               THEN LET k == ParseStr(p, 2)
                        v == IF k.ok /\ k.next <= Len(p) /\ p[k.next] = "Comma"
                             THEN ParseStr(p, k.next + 1) ELSE ParseFail
                    IN IF v.ok /\ v.next = Len(p) /\ p[v.next] = "RSet"
                       THEN Decoded(Msg("Query", "Set", k.s, v.s))
                       ELSE DecodeErr
          ELSE DecodeErr)
    ELSE (IF p \in {<<"Success">>, <<"KeyNotFound">>, <<"Err">>}
          THEN Decoded(Msg("Response", p[1], <<>>, <<>>))
          ELSE IF p = <<"LOk", "Null", "RBrace">>
               THEN Decoded(Msg("Response", "OkNone", <<>>, <<>>))
          ELSE IF p[1] = "LOk" THEN OneStr(p, "Response", "OkSome", "RBrace")
          ELSE DecodeErr)

\* receive: read 4 bytes, read that many bytes, decode them.
ReceiveFrame(enum, w) ==
    LET len == FromBeBytes(w.len)
    IN IF ~Available(w.body, len) THEN DecodeErr
       ELSE FromSlice(enum, TakeBytes(w.body, len))

NoGot == [ok |-> FALSE, msg |-> Msg("pending", "none", <<>>, <<>>)]

\* Nothing is on the wire.
InitCodec ==
    /\ wire_msg = NoMsg
    /\ wire = NoFrame
    /\ wire_got = NoGot

Init == InitEngine /\ InitPool /\ InitNet /\ InitConc /\ InitCodec

\* A directory KvStore::open has just been called on, for the server and for
\* the callers that share the handle.
OpenedStore ==
    /\ store = KvOpen(EmptyDir)
    /\ engine_file = "kvs"
    /\ handle = "kvs"
    /\ owner = "KvStore"
    /\ db = [k \in Keys |-> NoValue]
    /\ last = NoOp
    /\ cmps = <<>>
    /\ acked = [k \in Keys |-> "none"]
    /\ expect = [k \in Keys |-> "none"]
    /\ kept = [k \in Keys |-> "none"]
    /\ written = {}
    /\ nops = 0

InitOpened == OpenedStore /\ InitPool /\ InitNet /\ InitConc /\ InitCodec

\* The directory the server is started on: an earlier session has set key
\* "b" twice, which leaves wal_active past 10 * FILE_SIZE_LIMIT at the next
\* write, and has never written NetKey.
ServedDir == [EmptyDir EXCEPT !.active = <<SetCmd("b", "h"), SetCmd("b", "h")>>]

\* KvStore::open on that directory, then KvsServer::init(engine, addr,
\* thread_pool).
InitServer ==
    /\ store = KvOpen(ServedDir)
    /\ engine_file = "kvs"
    /\ handle = "kvs"
    /\ owner = "KvStore"
    /\ db = [k \in Keys |-> NoValue]
    /\ last = NoOp
    /\ cmps = <<>>
    /\ acked = [k \in Keys |-> "none"]
    /\ expect = [k \in Keys |-> "none"]
    /\ kept = [k \in Keys |-> "none"]
    /\ written = {}
    /\ nops = 0
    /\ InitPool /\ InitNetWith(PoolKinds) /\ InitConc /\ InitCodec

Outcome(op, v, res, before) ==
    IF res.kind = "Ok" THEN (IF op = "set" THEN v ELSE "rm")
    ELSE IF res.kind = "KeyNotFound" THEN before
    ELSE "fail"

NoKept == [k \in Keys |-> "none"]

RecordKept(op, k, v, res, kp) ==
    /\ UNCHANGED <<poolVars, netVars, concVars, codecVars>>
    /\ nops < MaxOps
    /\ last' = [op |-> op, key |-> k, val |-> v, res |-> res]
    /\ kept' = kp
    /\ nops' = nops + 1

Record(op, k, v, res) == RecordKept(op, k, v, res, NoKept)

\* The process ends, if one runs, and a new one calls KvStore::open(dir).
OpenKvStore ==
    LET t == TryAddEngineType(engine_file, "KvStore")
    IN /\ Record("open", "-", "KvStore", Res(IF t.ok THEN "Ok" ELSE "WrongEngine", "-"))
       /\ engine_file' = t.file
       /\ store' = IF t.ok THEN KvOpen(store) ELSE store
       /\ handle' = IF t.ok THEN "kvs" ELSE "none"
       /\ owner' = IF owner = "none" THEN "KvStore" ELSE owner
       /\ cmps' = <<>>
       /\ expect' = [k \in Keys |-> "none"]
       /\ UNCHANGED <<db, acked, written>>

\* The process ends, if one runs, and a new one calls SledKvsEngine::open(dir).
OpenSled ==
    LET t == TryAddEngineType(engine_file, "Sled")
    IN /\ Record("open", "-", "Sled", Res(IF t.ok THEN "Ok" ELSE "WrongEngine", "-"))
       /\ engine_file' = t.file
       /\ handle' = IF t.ok THEN "sled" ELSE "none"
       /\ owner' = IF owner = "none" THEN "Sled" ELSE owner
       /\ cmps' = <<>>
       /\ expect' = [k \in Keys |-> "none"]
       /\ UNCHANGED <<store, db, acked, written>>

DoGet ==
    \E k \in Keys :
        LET r == KvGet(store, k)
        IN /\ handle = "kvs"
           /\ Record("get", k, "-", r.res)
           /\ store' = r.st
           /\ cmps' = <<>>
           /\ UNCHANGED <<engine_file, handle, db, acked, expect, written, owner>>

DoSet ==
    \E k \in Keys, v \in Vals :
        LET r == KvSet(store, k, v)
        IN /\ handle = "kvs"
           /\ Record("set", k, v, r.res)
           /\ store' = r.st
           /\ cmps' = r.cmps
           /\ acked' = [acked EXCEPT ![k] = Outcome("set", v, r.res, @)]
           /\ expect' = [expect EXCEPT ![k] = Outcome("set", v, r.res, @)]
           /\ written' = written \cup {k}
           /\ UNCHANGED <<engine_file, handle, db, owner>>

DoRemove ==
    \E k \in Keys :
        LET r == KvRemove(store, k)
        IN /\ handle = "kvs"
           /\ Record("remove", k, "-", r.res)
           /\ store' = r.st
           /\ cmps' = r.cmps
           /\ acked' = [acked EXCEPT ![k] = Outcome("remove", "-", r.res, @)]
           /\ expect' = [expect EXCEPT ![k] = Outcome("remove", "-", r.res, @)]
           /\ UNCHANGED <<engine_file, handle, db, written, owner>>

DoSledGet ==
    \E k \in Keys :
        /\ handle = "sled"
        /\ Record("sled_get", k, "-", SledGet(db, k).res)
        /\ UNCHANGED <<store, engine_file, handle, db, cmps, acked, expect, written,
                       owner>>

DoSledSet ==
    \E k \in Keys, v \in Vals :
        /\ handle = "sled"
        /\ Record("sled_set", k, v, SledSet(db, k, v).res)
        /\ db' = SledSet(db, k, v).db
        /\ UNCHANGED <<store, engine_file, handle, cmps, acked, expect, written, owner>>

DoSledRemove ==
    \E k \in Keys :
        /\ handle = "sled"
        /\ Record("sled_remove", k, "-", SledRemove(db, k).res)
        /\ db' = SledRemove(db, k).db
        /\ UNCHANGED <<store, engine_file, handle, cmps, acked, expect, written, owner>>

(***************************************************************************)
(* Truncation of wal_active while no process runs, followed by             *)
(* KvStore::open: the file keeps its first i-1 records and the first p     *)
(* bytes of record i.                                                      *)
(***************************************************************************)
TruncateFile(f, i, p) ==
    SubSeq(f, 1, i - 1) \o (IF p = 0 THEN <<>> ELSE <<PartialRec(p)>>)

\* The newest whole record of key k in a file, as "m"/"h" (Set), "rm" or "none".
ValueIn(f, k) ==
    IF LastOf(f, k) = 0 THEN "none"
    ELSE IF f[LastOf(f, k)].op = "Set" THEN f[LastOf(f, k)].val ELSE "rm"

\* The newest record of key k in the directory: the active file first, then the
\* segments from the newest to the oldest.
RECURSIVE ValueInLogs(_, _, _)
ValueInLogs(logs, n, k) ==
    IF n = 0 THEN "none"
    ELSE IF ValueIn(logs[n], k) # "none" THEN ValueIn(logs[n], k)
    ELSE ValueInLogs(logs, n - 1, k)

\* What survives the cut: the value of each key whose newest record lies wholly
\* before it.
KeptBy(st, i, k) ==
    IF LastOf(st.active, k) >= i THEN "none"
    ELSE IF LastOf(st.active, k) > 0 THEN ValueIn(st.active, k)
    ELSE ValueInLogs(st.wal_logs, Len(st.wal_logs), k)

TruncateReopen ==
    \E i \in 1..Len(store.active) :
        \E p \in {0, 1, CmdLen(store.active[i]) - 1} :
            /\ engine_file = "kvs"
            /\ RecordKept("truncate", "-", "-", Res("Ok", "-"),
                          [k \in Keys |-> KeptBy(store, i, k)])
            /\ store' = KvOpen([store EXCEPT !.active = TruncateFile(@, i, p)])
            /\ handle' = "kvs"
            /\ cmps' = <<>>
            /\ expect' = [k \in Keys |-> "none"]
            /\ UNCHANGED <<engine_file, db, acked, written, owner>>

(***************************************************************************)
(* A crash of the process inside minor_compact.  What a crash leaves is    *)
(* the directory: the segments renamed so far and wal_active, which is the *)
(* old file until the last rename and the new one after it.  new_active,   *)
(* if it is left behind, is not a file that open looks at.                 *)
(***************************************************************************)
RECURSIVE CompactCrashes(_, _, _, _, _, _, _)
CompactCrashes(self, i, nki, nf, cur_index, offset, prev) ==
    IF i > Len(KeyOrder)
    THEN {self, [self EXCEPT !.active = nf]}
    ELSE LET k == KeyOrder[i]
             li == nki[k]
         IN IF ~(li.has /\ li.file_index = prev)
            THEN CompactCrashes(self, i + 1, nki, nf, cur_index, offset, prev)
            ELSE LET split == offset + li.len >= FILE_SIZE_LIMIT
                     self1 == IF split
                              THEN [self EXCEPT !.wal_logs = Append(@, nf)]
                              ELSE self
                     nf1 == IF split THEN <<>> ELSE nf
                     cur1 == IF split THEN cur_index + 1 ELSE cur_index
                     off1 == IF split THEN 0 ELSE offset
                     r == ReadFromLog(self1, li)
                 IN {self, self1} \cup
                    (IF r.ok # "Ok" THEN {}
                     ELSE CompactCrashes(self1, i + 1,
                                         [nki EXCEPT ![k] = LogIndex(cur1, off1, li.len)],
                                         Append(nf1, r.cmd), cur1, off1 + li.len, prev))

\* The directories a crash can leave when it hits minor_compact called on st.
MinorCompactCrashes(st) ==
    CompactCrashes(st, 1, st.key_index, <<>>, Len(st.wal_logs), 0, Len(st.wal_logs))

\* The compactions append_log starts, each with the instance as it was when
\* the compaction started and the directories a crash inside it can leave.
AppendLogCrashes(st, cmd, key) ==
    LET offset == FileSize(st.active)
        file_index == Len(st.wal_logs)
        old == st.key_index[key]
        st1 == [st EXCEPT !.active = Append(@, cmd),
                          !.key_index[key] = LogIndex(file_index, offset, CmdLen(cmd))]
        redundant == old.has /\ old.file_index = file_index
        st2 == IF redundant THEN [st1 EXCEPT !.active_redundant = @ + 1] ELSE st1
        first == redundant /\ st2.active_redundant > COMPACTION_THRESHOLD
        c1 == IF first THEN MinorCompact(st2) ELSE [ok |-> "Ok", st |-> st2]
        second == c1.ok = "Ok" /\ offset > 10 * FILE_SIZE_LIMIT
    IN (IF first THEN {[pre |-> st2, dir |-> d] : d \in MinorCompactCrashes(st2)}
        ELSE {})
       \cup
       (IF second THEN {[pre |-> c1.st, dir |-> d] : d \in MinorCompactCrashes(c1.st)}
        ELSE {})

\* A get result as a value to be found again: v for Some(v), "rm" for None.
Seen(res) ==
    IF res.kind = "Some" THEN res.val
    ELSE IF res.kind = "None" THEN "rm"
    ELSE "none"

\* set(k, v) runs into a compaction, the process dies inside it, and a new
\* process opens the directory.
CrashInCompaction ==
    \E k \in Keys, v \in Vals :
        \E c \in AppendLogCrashes(store, SetCmd(k, v), k) :
            /\ handle = "kvs"
            /\ ~store.poisoned
            /\ RecordKept("crash", k, v, Res("Ok", "-"),
                          [x \in Keys |-> Seen(InnerGet(c.pre, x).res)])
            /\ store' = KvOpen(c.dir)
            /\ cmps' = <<>>
            /\ expect' = [x \in Keys |-> "none"]
            /\ UNCHANGED <<engine_file, handle, db, acked, written, owner>>

NextEngine ==
    \/ OpenKvStore
    \/ OpenSled
    \/ DoGet
    \/ DoSet
    \/ DoRemove
    \/ DoSledGet
    \/ DoSledSet
    \/ DoSledRemove

Next == NextEngine

Spec == Init /\ [][Next]_vars

NextTrunc == NextEngine \/ TruncateReopen

SpecTrunc == Init /\ [][NextTrunc]_vars

NextCrash == NextEngine \/ CrashInCompaction

SpecCrash == Init /\ [][NextCrash]_vars

(***************************************************************************)
(* The shared-queue thread pool (thread_pool/shared_queue.rs).             *)
(***************************************************************************)
\* A worker that gives up its Receiver as soon as its job panics.
ReceiversDroppedOnPanic(w) == {t \in DOMAIN w : w[t].pc \in {"recv", "run"}}

\* The threads that hold a Receiver of the channel.
Receivers(w) == {t \in DOMAIN w : w[t].pc \in {"recv", "run", "unwind"}}

Unborn(w) == {t \in DOMAIN w : w[t].pc = "unborn"}

\* A guard that never spawns a replacement.
DropReceiverWrapperNoRespawn(w, t, panicking) == [w EXCEPT ![t] = [pc |-> "exit", job |-> 0]]

\* A guard that spawns a replacement whether or not the thread is panicking.
DropReceiverWrapperAlwaysRespawn(w, t, panicking) ==
    IF Unborn(w) # {}
    THEN LET new == CHOOSE u \in Unborn(w) : \A x \in Unborn(w) : u <= x
         IN [w EXCEPT ![t] = [pc |-> "exit", job |-> 0],
                      ![new] = [pc |-> "recv", job |-> 0]]
    ELSE [w EXCEPT ![t] = [pc |-> "exit", job |-> 0]]

\* impl Drop for ReceiverWrapper, run by thread t: if the thread is panicking,
\* clone the receiver and spawn a thread that runs the worker loop with it.
DropReceiverWrapper(w, t, panicking) ==
    IF panicking /\ Unborn(w) # {}
    THEN LET new == CHOOSE u \in Unborn(w) : \A x \in Unborn(w) : u <= x
         IN [w EXCEPT ![t] = [pc |-> "exit", job |-> 0],
                      ![new] = [pc |-> "recv", job |-> 0]]
    ELSE [w EXCEPT ![t] = [pc |-> "exit", job |-> 0]]

\* A channel whose recv() never reports that the Sender is gone.
RecvNeverDisconnects(q, alive) == FALSE

\* receiver.0.recv() returns Err: the channel is empty and its Sender, which
\* the pool handle owns, has been dropped.
RecvDisconnected(q, alive) == q = <<>> /\ ~alive

\* SharedQueueThreadPool::spawn: sender.send(job).unwrap()
PoolSpawn ==
    \E kind \in {"ok", "panic"} :
        /\ pool_alive
        /\ ~spawn_panicked
        /\ Len(submitted) < MaxJobs
        /\ IF Receivers(wk) = {}
           THEN /\ spawn_panicked' = TRUE
                /\ UNCHANGED <<pq, submitted>>
           ELSE /\ submitted' = Append(submitted, kind)
                /\ pq' = Append(pq, Len(submitted) + 1)
                /\ UNCHANGED spawn_panicked
        /\ UNCHANGED <<wk, pool_alive, runs, engVars, netVars, concVars, codecVars>>

\* A channel that loses the message behind the one it delivers.
RecvRestDropsNext(q) == IF Len(q) >= 2 THEN Tail(Tail(q)) ELSE Tail(q)

\* The channel after recv() has taken its oldest message.
RecvRest(q) == Tail(q)

\* receiver.0.recv() returns Ok(f)
WorkerRecv(t) ==
    /\ wk[t].pc = "recv"
    /\ pq # <<>>
    /\ wk' = [wk EXCEPT ![t] = [pc |-> "run", job |-> Head(pq)]]
    /\ pq' = RecvRest(pq)
    /\ UNCHANGED <<pool_alive, submitted, runs, spawn_panicked>>
    /\ UNCHANGED <<engVars, netVars, concVars, codecVars>>

\* f(): the job runs, and returns or panics.
WorkerRun(t) ==
    /\ wk[t].pc = "run"
    /\ runs' = [runs EXCEPT ![wk[t].job] = @ + 1]
    /\ wk' = [wk EXCEPT ![t] = [pc |-> IF submitted[wk[t].job] = "panic"
                                      THEN "unwind" ELSE "recv",
                                job |-> 0]]
    /\ UNCHANGED <<pq, pool_alive, submitted, spawn_panicked>>
    /\ UNCHANGED <<engVars, netVars, concVars, codecVars>>

\* The panic unwinds the worker's closure and drops its ReceiverWrapper.
WorkerUnwind(t) ==
    /\ wk[t].pc = "unwind"
    /\ wk' = DropReceiverWrapper(wk, t, TRUE)
    /\ UNCHANGED <<pq, pool_alive, submitted, runs, spawn_panicked>>
    /\ UNCHANGED <<engVars, netVars, concVars, codecVars>>

\* recv() returns Err: the queue is empty and the Sender is gone; the loop
\* ends and the ReceiverWrapper is dropped without a panic.
WorkerExit(t) ==
    /\ wk[t].pc = "recv"
    /\ RecvDisconnected(pq, pool_alive)
    /\ wk' = DropReceiverWrapper(wk, t, FALSE)
    /\ UNCHANGED <<pq, pool_alive, submitted, runs, spawn_panicked>>
    /\ UNCHANGED <<engVars, netVars, concVars, codecVars>>

\* The pool handle, and with it the Sender, is dropped.
PoolDrop ==
    /\ pool_alive
    /\ pool_alive' = FALSE
    /\ UNCHANGED <<pq, wk, submitted, runs, spawn_panicked>>
    /\ UNCHANGED <<engVars, netVars, concVars, codecVars>>

WorkerStep(t) == WorkerRecv(t) \/ WorkerRun(t) \/ WorkerUnwind(t) \/ WorkerExit(t)

NextPool ==
    \/ PoolSpawn
    \/ PoolDrop
    \/ \E t \in 1..MaxThreads : WorkerRecv(t)
    \/ \E t \in 1..MaxThreads : WorkerRun(t)
    \/ \E t \in 1..MaxThreads : WorkerUnwind(t)
    \/ \E t \in 1..MaxThreads : WorkerExit(t)

\* Every thread the OS has started keeps being scheduled.
FairPool == \A t \in 1..MaxThreads : WF_vars(WorkerStep(t))

SpecPool == Init /\ [][NextPool]_vars /\ FairPool

(***************************************************************************)
(* One sequence of calls made on a fresh KvStore and on a fresh            *)
(* SledKvsEngine (impl KvsEngine for KvStore, impl KvsEngine for           *)
(* SledKvsEngine): each step makes the same call on both.                  *)
(***************************************************************************)
PairGet ==
    \E k \in Keys :
        LET r == KvGet(store, k)
        IN /\ Record("get", k, "-", r.res)
           /\ store' = r.st
           /\ db' = SledGet(db, k).db
           /\ cmps' = <<>>
           /\ UNCHANGED <<engine_file, handle, acked, expect, written, owner>>

PairSet ==
    \E k \in Keys, v \in Vals :
        LET r == KvSet(store, k, v)
        IN /\ Record("set", k, v, r.res)
           /\ store' = r.st
           /\ db' = SledSet(db, k, v).db
           /\ cmps' = r.cmps
           /\ UNCHANGED <<engine_file, handle, acked, expect, written, owner>>

PairRemove ==
    \E k \in Keys :
        LET r == KvRemove(store, k)
        IN /\ Record("remove", k, "-", r.res)
           /\ store' = r.st
           /\ db' = SledRemove(db, k).db
           /\ cmps' = r.cmps
           /\ UNCHANGED <<engine_file, handle, acked, expect, written, owner>>

NextPair == PairGet \/ PairSet \/ PairRemove

SpecPair == InitOpened /\ [][NextPair]_vars

(***************************************************************************)
(* Claims about the log engine and the sentinel.                           *)
(***************************************************************************)
IsOk(r) == r.kind = "Ok"

\* C1: right after remove(k) succeeded, get(k) returns None and a second
\* remove(k) returns KeyNotFound; remove of a key that was never set returns
\* KeyNotFound.
C1_RemoveThenKeyNotFound ==
    /\ (last.op = "remove" /\ IsOk(last.res)) =>
          /\ KvGet(store, last.key).res = Res("None", "-")
          /\ KvRemove(store, last.key).res.kind = "KeyNotFound"
    /\ \A k \in Keys \ written :
          (handle = "kvs" /\ ~store.poisoned) =>
              KvRemove(store, k).res.kind = "KeyNotFound"

\* C2: after an acknowledged set or remove, reopening the directory gives, for
\* every key whose latest write was acknowledged, the get result the running
\* instance gives.
C2_DurableAcrossRestart ==
    (last.op \in {"set", "remove"} /\ IsOk(last.res)) =>
        \A k \in Keys :
            acked[k] \in Vals \cup {"rm"} =>
                KvGet(KvOpen(store), k).res = KvGet(store, k).res

\* C3: every compaction that completed left get(k) as it was just before it,
\* for every key k.
C3_CompactionPreservesGet ==
    \A i \in 1..Len(cmps) :
        cmps[i].ok = "Ok" =>
            \A k \in Keys :
                InnerGet(cmps[i].pre, k).res = InnerGet(cmps[i].post, k).res

\* C4: while the latest write of k in this session is an acknowledged
\* set(k, v), whatever was since written to other keys, get(k) returns Some(v)
\* (stated for the instances no call has panicked on).
C4_GetAfterSet ==
    \A k \in Keys :
        (expect[k] \in Vals /\ ~store.poisoned) =>
            KvGet(store, k).res = Res("Some", expect[k])

\* C5: after wal_active was cut at any byte and the directory reopened, get
\* returns, without error, the value of every key whose newest record lies
\* wholly before the cut.
C5_TruncatedLogRecovers ==
    last.op = "truncate" =>
        /\ IsOk(last.res)
        /\ \A k \in Keys :
              kept[k] # "none" =>
                  KvGet(store, k).res =
                      (IF kept[k] = "rm" THEN Res("None", "-")
                       ELSE Res("Some", kept[k]))

\* C10: the first open writes the sentinel, which then never changes; every
\* later open with the same engine succeeds and every open with the other
\* engine fails with WrongEngine.
C10_SentinelFidelity ==
    /\ owner # "none" => engine_file = EngineTypeToString(owner)
    /\ last.op = "open" =>
          last.res.kind = (IF owner = last.val THEN "Ok" ELSE "WrongEngine")

C10_Witness ==
    /\ last.op = "open"
    /\ last.val = "Sled"
    /\ owner = "KvStore"
    /\ last.res.kind = "WrongEngine"
    /\ nops > 2

(***************************************************************************)
(* The server and the client (net/server.rs, net/client.rs, net/mod.rs).   *)
(***************************************************************************)
\* The call handle makes on the engine for a query.
EngineCall(st, q) ==
    IF q.op = "set" THEN KvSet(st, q.key, q.val)
    ELSE IF q.op = "get" THEN KvGet(st, q.key)
    ELSE KvRemove(st, q.key)

\* A handler that answers every engine error with Response::KeyNotFound.
HandleResponseKeyNotFound(q, eres) ==
    IF q.op = "get"
    THEN (IF eres.kind = "Some" THEN Res("Ok", eres.val)
          ELSE IF eres.kind = "None" THEN Res("Ok", "none")
          ELSE Res("KeyNotFound", "-"))
    ELSE (IF eres.kind = "Ok" THEN Res("Success", "-") ELSE Res("KeyNotFound", "-"))

\* handle's match on the engine's result: the Response it sends.
HandleResponse(q, eres) ==
    IF q.op = "set" THEN (IF eres.kind = "Ok" THEN Res("Success", "-") ELSE Res("Err", "-"))
    ELSE IF q.op = "get"
         THEN (IF eres.kind = "Some" THEN Res("Ok", eres.val)
               ELSE IF eres.kind = "None" THEN Res("Ok", "none")
               ELSE Res("Err", "-"))
    ELSE (IF eres.kind = "Ok" THEN Res("Success", "-") ELSE Res("Err", "-"))

\* KvsClient::get / set / remove with the Err arm returning KeyNotFound.
ClientMapErrAsKeyNotFound(q, resp) ==
    IF q.op = "get"
    THEN (IF resp.kind = "Ok" THEN (IF resp.val = "none" THEN Res("None", "-")
                                    ELSE Res("Some", resp.val))
          ELSE IF resp.kind = "KeyNotFound" THEN Res("KeyNotFound", "-")
          ELSE IF resp.kind = "Err" THEN Res("KeyNotFound", "-")
          ELSE Res("Unreachable", "-"))
    ELSE IF q.op = "set"
    THEN (IF resp.kind = "Success" THEN Res("Ok", "-")
          ELSE IF resp.kind = "Err" THEN Res("KeyNotFound", "-")
          ELSE Res("Unreachable", "-"))
    ELSE (IF resp.kind = "Success" THEN Res("Ok", "-")
          ELSE IF resp.kind = "KeyNotFound" THEN Res("KeyNotFound", "-")
          ELSE IF resp.kind = "Err" THEN Res("KeyNotFound", "-")
          ELSE Res("Unreachable", "-"))

\* KvsClient::get / set / remove: the match on the Response received.
ClientMap(q, resp) ==
    IF q.op = "get"
    THEN (IF resp.kind = "Ok" THEN (IF resp.val = "none" THEN Res("None", "-")
                                    ELSE Res("Some", resp.val))
          ELSE IF resp.kind = "KeyNotFound" THEN Res("KeyNotFound", "-")
          ELSE IF resp.kind = "Err" THEN Res("ServerError", "-")
          ELSE Res("Unreachable", "-"))
    ELSE IF q.op = "set"
    THEN (IF resp.kind = "Success" THEN Res("Ok", "-")
          ELSE IF resp.kind = "Err" THEN Res("ServerError", "-")
          ELSE Res("Unreachable", "-"))
    ELSE (IF resp.kind = "Success" THEN Res("Ok", "-")
          ELSE IF resp.kind = "KeyNotFound" THEN Res("KeyNotFound", "-")
          ELSE IF resp.kind = "Err" THEN Res("ServerError", "-")
          ELSE Res("Unreachable", "-"))

\* The listener exists from the acceptor's bind until the acceptor returns.
Listening == acc \in {"accept", "check"}

netFrame == <<engRest, poolVars, concVars, codecVars>>

\* KvsServer::start: spawn the acceptor thread.
ServerStart ==
    /\ acc = "idle"
    /\ acc' = "spawned"
    /\ UNCHANGED <<stop_flag, acc_cur, stop_pc, stops, backlog, conn, pool_kind,
                   store, netFrame>>

\* The acceptor locks the pool and binds the listener.
AccBind ==
    /\ acc = "spawned"
    /\ acc' = "accept"
    /\ UNCHANGED <<stop_flag, acc_cur, stop_pc, stops, backlog, conn, pool_kind,
                   store, netFrame>>

\* listener.incoming() yields the next pending connection; it blocks while
\* there is none.
AccTake ==
    /\ acc = "accept"
    /\ backlog # <<>>
    /\ acc' = "check"
    /\ acc_cur' = Head(backlog)
    /\ backlog' = Tail(backlog)
    /\ conn' = IF Head(backlog) = 0 THEN conn
               ELSE [conn EXCEPT ![Head(backlog)].srv = "taken"]
    /\ UNCHANGED <<stop_flag, stop_pc, stops, pool_kind, store, netFrame>>

\* What the end of the listener, or of the process, does to the connections:
\* those not yet given to the pool are dropped, and those whose job is still
\* queued are kept or lost.
EndConns(cs, queued) ==
    [c \in 1..MaxConns |->
        IF cs[c].srv \in {"backlog", "taken"} THEN [cs[c] EXCEPT !.srv = "dropped"]
        ELSE IF cs[c].srv = "queued" THEN [cs[c] EXCEPT !.srv = queued]
        ELSE cs[c]]

\* An acceptor that never sees the flag set.
StopSignLoadStale(flag) == FALSE

\* stop_sign.load(Ordering::Acquire)
StopSignLoad(flag) == flag

\* The loop body: break if the stop flag is set, which drops the stream and
\* the listener with everything still pending; return the error of
\* stream.peer_addr()?, which a connection the peer has already reset may
\* give; otherwise give the stream to the pool as a handle job.
AccCheck ==
    \E peer_ok \in (IF acc_cur # 0 /\ conn[acc_cur].cli = "reset" /\ ~stop_flag
                    THEN {TRUE, FALSE} ELSE {TRUE}) :
        /\ acc = "check"
        /\ IF StopSignLoad(stop_flag) \/ ~peer_ok
           THEN /\ acc' = "done"
                /\ backlog' = <<>>
                /\ conn' = EndConns(conn, "queued")
           ELSE /\ acc' = "accept"
                /\ conn' = IF acc_cur = 0 THEN conn
                           ELSE [conn EXCEPT ![acc_cur].srv = "queued"]
                /\ UNCHANGED backlog
        /\ acc_cur' = 0
        /\ UNCHANGED <<stop_flag, stop_pc, stops, pool_kind, store, netFrame>>

\* stop_server: self.stop.store(true, Release)
StopStore ==
    /\ acc \notin {"idle", "aborted"}
    /\ stop_pc = "idle"
    /\ stops < MaxStops
    /\ stop_pc' = "stored"
    /\ stop_flag' = TRUE
    /\ UNCHANGED <<acc, acc_cur, stops, backlog, conn, pool_kind, store, netFrame>>

\* stop_server: let _stream = TcpStream::connect(&self.addr).  The connection
\* is queued if a listener is bound to the address and refused if none is;
\* the result is not looked at.
StopConnect ==
    /\ acc # "aborted"
    /\ stop_pc = "stored"
    /\ stop_pc' = "idle"
    /\ stops' = stops + 1
    /\ backlog' = IF Listening THEN Append(backlog, 0) ELSE backlog
    /\ UNCHANGED <<stop_flag, acc, acc_cur, conn, pool_kind, store, netFrame>>

\* KvsClient::init.  The connections are numbered in the order in which
\* they are opened.
ClientConnect(c) ==
    /\ conn[c].cli = "init"
    /\ c > 1 => conn[c - 1].cli # "init"
    /\ IF Listening
       THEN /\ conn' = [conn EXCEPT ![c].cli = "connected", ![c].srv = "backlog"]
            /\ backlog' = Append(backlog, c)
       ELSE /\ conn' = [conn EXCEPT ![c].cli = "refused"]
            /\ UNCHANGED backlog
    /\ UNCHANGED <<stop_flag, acc, acc_cur, stop_pc, stops, pool_kind, store, netFrame>>

\* KvsClient::send of the query of a get, set or remove.
ClientSend(c) ==
    \E q \in Queries :
        /\ conn[c].cli = "connected"
        /\ conn' = [conn EXCEPT ![c].cli = "sent", ![c].query = q, ![c].nsent = @ + 1]
        /\ UNCHANGED <<stop_flag, acc, acc_cur, stop_pc, stops, backlog, pool_kind,
                       store, netFrame>>

\* A peer that does not speak the protocol: it writes a frame receive cannot
\* decode or closes before a whole frame is written ("bad": a truncated
\* length, a truncated payload, invalid JSON, nothing at all), or resets the
\* connection before the server has accepted it ("reset").
ClientFail(c) ==
    \E how \in {"bad", "reset"} :
        /\ conn[c].cli = "connected"
        /\ \A d \in 1..MaxConns : conn[d].cli \notin {"bad", "reset"}
        /\ how = "reset" => conn[c].srv = "backlog"
        /\ conn' = [conn EXCEPT ![c].cli = how]
        /\ UNCHANGED <<stop_flag, acc, acc_cur, stop_pc, stops, backlog, pool_kind,
                       store, netFrame>>

\* A pool worker runs handle(stream, engine).unwrap(): receive the query,
\* call the engine, send the response, drop the stream.  An Err of receive
\* makes the unwrap panic, and a panic of the engine call ends the job with
\* nothing sent; a panicking job ends its thread or, with rayon, the process.
Handle(c) ==
    /\ acc # "aborted"
    /\ conn[c].srv = "queued"
    /\ conn[c].cli \in {"sent", "bad", "reset"}
    /\ \E r \in {IF conn[c].cli = "sent" THEN EngineCall(store, conn[c].query)
                  ELSE [st |-> store, res |-> NoRes]} :
         \E panics \in {conn[c].cli # "sent" \/ r.res.kind = "Panic"} :
           \E abort \in {panics /\ pool_kind = "RayonThreadPool"} :
             \E mine \in {IF conn[c].cli # "sent"
                           THEN [conn[c] EXCEPT !.srv = "panicked"]
                           ELSE IF panics
                           THEN [conn[c] EXCEPT !.srv = "panicked", !.eres = r.res,
                                                !.ndec = @ + 1, !.ncall = @ + 1]
                           ELSE [conn[c] EXCEPT
                                    !.srv = "done", !.eres = r.res,
                                    !.resp = HandleResponse(conn[c].query, r.res),
                                    !.ndec = @ + 1, !.ncall = @ + 1,
                                    !.nresp = @ + 1]} :
               /\ store' = r.st
               /\ conn' = IF abort THEN EndConns([conn EXCEPT ![c] = mine], "lost")
                          ELSE [conn EXCEPT ![c] = mine]
               /\ acc' = IF abort THEN "aborted" ELSE acc
               /\ backlog' = IF abort THEN <<>> ELSE backlog
               /\ acc_cur' = IF abort THEN 0 ELSE acc_cur
               /\ UNCHANGED <<stop_flag, stop_pc, stops, pool_kind, netFrame>>

\* KvsClient::receive and the match on the response; a stream the server
\* closed without a response gives an io error.
ClientReceive(c) ==
    /\ conn[c].cli = "sent"
    /\ conn[c].srv \in {"done", "panicked", "dropped", "lost"}
    /\ conn' = [conn EXCEPT ![c].cli = "got",
                            ![c].nread = IF conn[c].srv = "done" THEN @ + 1 ELSE @,
                            ![c].cres = IF conn[c].srv = "done"
                                        THEN ClientMap(conn[c].query, conn[c].resp)
                                        ELSE Res("Io", "-")]
    /\ UNCHANGED <<stop_flag, acc, acc_cur, stop_pc, stops, backlog, pool_kind,
                   store, netFrame>>

NextNet ==
    \/ ServerStart
    \/ AccBind
    \/ AccTake
    \/ AccCheck
    \/ StopStore
    \/ StopConnect
    \/ \E c \in 1..MaxConns : ClientConnect(c)
    \/ \E c \in 1..MaxConns : ClientSend(c)
    \/ \E c \in 1..MaxConns : ClientFail(c)
    \/ \E c \in 1..MaxConns : Handle(c)
    \/ \E c \in 1..MaxConns : ClientReceive(c)

SpecNet == InitServer /\ [][NextNet]_vars

(***************************************************************************)
(* The client against any peer that speaks the framing (net/client.rs):    *)
(* the peer answers a request with any Response, or closes.                *)
(***************************************************************************)
\* The values of enum Response (net/mod.rs).
Responses ==
    {Res("Success", "-"), Res("KeyNotFound", "-"), Res("Err", "-"), Res("Ok", "none")}
        \cup {Res("Ok", v) : v \in Vals}

\* The peer has the request and writes one framed Response, or closes the
\* stream without writing one.
PeerReply(c) ==
    \E resp \in Responses \cup {NoRes} :
        /\ conn[c].cli = "sent"
        /\ conn[c].srv = "backlog"
        /\ conn' = [conn EXCEPT ![c].srv = IF resp = NoRes THEN "dropped" ELSE "done",
                                ![c].resp = resp]
        /\ UNCHANGED <<stop_flag, acc, acc_cur, stop_pc, stops, backlog, pool_kind,
                       store, netFrame>>

NextClient ==
    \/ ServerStart
    \/ AccBind
    \/ \E c \in 1..MaxConns : ClientConnect(c)
    \/ \E c \in 1..MaxConns : ClientSend(c)
    \/ \E c \in 1..MaxConns : PeerReply(c)
    \/ \E c \in 1..MaxConns : ClientReceive(c)

SpecClient == InitOpened /\ [][NextClient]_vars

(***************************************************************************)
(* One message through the codec: send frames it, receive decodes the      *)
(* frame.                                                                  *)
(***************************************************************************)
\* Any Query or Response is about to be sent.
InitWire ==
    /\ InitEngine /\ InitPool /\ InitNet /\ InitConc
    /\ wire_msg \in QueryMsgs \cup ResponseMsgs
    /\ wire = NoFrame
    /\ wire_got = NoGot

WireSend ==
    /\ wire = NoFrame
    /\ wire' = SendFrame(wire_msg)
    /\ UNCHANGED <<wire_msg, wire_got, engVars, poolVars, netVars, concVars>>

WireReceive ==
    /\ wire # NoFrame
    /\ wire_got = NoGot
    /\ wire_got' = ReceiveFrame(wire_msg.enum, wire)
    /\ UNCHANGED <<wire_msg, wire, engVars, poolVars, netVars, concVars>>

NextCodec == WireSend \/ WireReceive

SpecCodec == InitWire /\ [][NextCodec]_vars

(***************************************************************************)
(* Callers sharing clones of one KvStore (kv_store.rs, impl KvsEngine for  *)
(* KvStore): each call locks the Mutex for the whole of the inner call.    *)
(***************************************************************************)
\* The callers other than t that have a set or remove of key k in progress.
WritersOf(k, t) ==
    {u \in Callers \ {t} : th[u].pc # "idle" /\ th[u].op \in {"set", "remove"}
                                /\ th[u].key = k}

concFrame == <<engRest, poolVars, netVars, codecVars>>

\* A caller starts get(k): it has to see what is settled for k now.
InvokeGet(t) ==
    \E k \in Keys :
        /\ th[t].pc = "idle"
        /\ ncalls < MaxCalls
        /\ ncalls' = ncalls + 1
        /\ th' = [th EXCEPT ![t] = [pc |-> "called", op |-> "get", key |-> k,
                                    val |-> "-",
                                    exp |-> IF WritersOf(k, t) = {} THEN settled[k]
                                            ELSE "?",
                                    alone |-> TRUE, cmp |-> FALSE, res |-> NoRes]]
        /\ UNCHANGED <<settled, store, concFrame>>

\* A caller starts set(k, v) or remove(k): until it returns, a get of k that
\* is in progress or starts may or may not see it, and of two writes of k
\* that overlap either may be the later one.
InvokeWrite(t) ==
    \E k \in Keys, v \in Vals \cup {"rm"} :
        /\ th[t].pc = "idle"
        /\ ncalls < MaxCalls
        /\ ncalls' = ncalls + 1
        /\ th' = [u \in Callers |->
                    IF u = t
                    THEN [pc |-> "called", op |-> IF v = "rm" THEN "remove" ELSE "set",
                          key |-> k, val |-> v, exp |-> "?",
                          alone |-> (WritersOf(k, t) = {}), cmp |-> FALSE,
                          res |-> NoRes]
                    ELSE IF th[u].pc # "idle" /\ th[u].key = k
                         THEN [th[u] EXCEPT !.exp = "?", !.alone = (th[u].op = "get")]
                         ELSE th[u]]
        /\ settled' = [settled EXCEPT ![k] = "?"]
        /\ UNCHANGED <<store, concFrame>>

\* self.inner.lock().unwrap() and the inner call, under the lock.  cmp marks
\* the calls that were waiting for the lock while this one ran minor_compact.
LockedCall(t) ==
    /\ th[t].pc = "called"
    /\ \E r \in {IF th[t].op = "get" THEN KvGet(store, th[t].key)
                  ELSE IF th[t].op = "set" THEN KvSet(store, th[t].key, th[t].val)
                  ELSE KvRemove(store, th[t].key)} :
         /\ store' = r.st
         /\ th' = [u \in Callers |->
                     IF u = t THEN [th[t] EXCEPT !.pc = "done", !.res = r.res]
                     ELSE IF th[u].pc = "called" /\ r.cmps # <<>>
                          THEN [th[u] EXCEPT !.cmp = TRUE]
                          ELSE th[u]]
         /\ UNCHANGED <<settled, ncalls, concFrame>>

\* The call returns to the caller.  A set or remove that returned Ok and
\* overlapped no other write of the key settles the key.
Return(t) ==
    LET c == th[t]
    IN /\ c.pc = "done"
       /\ th' = [th EXCEPT ![t] = NoCall]
       /\ settled' =
             IF c.op # "get" /\ c.alone /\ c.res.kind = "Ok"
             THEN [settled EXCEPT ![c.key] = IF c.op = "set" THEN c.val ELSE "none"]
             ELSE settled
       /\ UNCHANGED <<ncalls, store, concFrame>>

NextConc ==
    \/ \E t \in Callers : InvokeGet(t)
    \/ \E t \in Callers : InvokeWrite(t)
    \/ \E t \in Callers : LockedCall(t)
    \/ \E t \in Callers : Return(t)

SpecConc == InitOpened /\ [][NextConc]_vars

(***************************************************************************)
(* Claims about callers that share a handle.                               *)
(***************************************************************************)
\* C6: a get that started after a set or remove of its key returned Ok, that
\* write having overlapped no other write of the key and no write of the key
\* having started since, returns the value of that write: Some(v) after
\* set(k, v), None after remove(k) and for a key never written.
C6_GetObservesLastWrite ==
    \A t \in Callers :
        (th[t].pc = "done" /\ th[t].op = "get" /\ th[t].exp # "?"
            /\ th[t].res.kind # "Panic") =>
            th[t].res = (IF th[t].exp = "none" THEN Res("None", "-")
                         ELSE Res("Some", th[t].exp))

(***************************************************************************)
(* Claims about the server.                                                *)
(***************************************************************************)
\* C7: when handle has served Rm(k) and the engine's remove failed with
\* KeyNotFound, the response sent is KeyNotFound, and the client's remove,
\* once it has the response, returns Err(KeyNotFound).
C7_RmKeyNotFoundResponse ==
    \A c \in 1..MaxConns :
        (conn[c].query.op = "rm" /\ conn[c].srv = "done"
            /\ conn[c].eres.kind = "KeyNotFound") =>
            /\ conn[c].resp.kind = "KeyNotFound"
            /\ conn[c].cli = "got" => conn[c].cres.kind = "KeyNotFound"

\* C9: once a stop_server call has returned and none is in progress, the
\* acceptor is not left blocked in accept with no connection pending, where
\* only a further connection could make it go on.
C9_StopUnblocksAcceptor ==
    (stops >= 1 /\ stop_pc = "idle" /\ acc = "accept") => backlog # <<>>

(***************************************************************************)
(* Claims about the thread pool.                                           *)
(***************************************************************************)
\* The pool was given PoolSize panicking jobs and then one that does not panic.
PanicsThenOk ==
    /\ Len(submitted) = PoolSize + 1
    /\ \A j \in 1..PoolSize : submitted[j] = "panic"
    /\ submitted[PoolSize + 1] = "ok"

\* C8: a pool of n workers given n panicking jobs and then a job that does not
\* panic eventually runs that job, whatever the interleaving.
C8_JobAfterPanicsRuns == PanicsThenOk ~> (runs[PoolSize + 1] = 1)

C8_Witness ==
    /\ PanicsThenOk
    /\ \A j \in 1..PoolSize : runs[j] = 1
    /\ \A t \in 1..PoolSize : wk[t].pc = "exit"
    /\ runs[PoolSize + 1] = 1

(***************************************************************************)
(* Claims about compaction.                                                *)
(***************************************************************************)
\* C11: a compaction that failed with an error left get(k), on the running
\* instance and after a reopen, as it was just before the compaction, for
\* every key k.
C11_FailedCompactionHarmless ==
    \A i \in 1..Len(cmps) :
        cmps[i].ok = "Err" =>
            \A k \in Keys :
                /\ InnerGet(cmps[i].post, k).res = InnerGet(cmps[i].pre, k).res
                /\ InnerGet(KvOpen(cmps[i].post), k).res = InnerGet(cmps[i].pre, k).res

\* C12: after a crash inside a compaction and a reopen, get(k) returns for
\* every key what it returned when the compaction started.
C12_CrashInCompactionRecovers ==
    last.op = "crash" =>
        \A k \in Keys :
            kept[k] # "none" =>
                KvGet(store, k).res =
                    (IF kept[k] = "rm" THEN Res("None", "-")
                     ELSE Res("Some", kept[k]))

\* The longest record a call of the model writes.
MaxCmdLen == CmdLen(SetCmd("a", "h"))

\* C13: the log does not grow with the number of writes: append_log compacts
\* whenever it appended at an offset past 10 * FILE_SIZE_LIMIT, so wal_active
\* never holds more than that plus one record, and get of the key last
\* written, if the set returned Ok, returns the value written.
C13_LogSizeBounded ==
    (handle = "kvs" /\ ~store.poisoned) =>
        /\ FileSize(store.active) <= 10 * FILE_SIZE_LIMIT + MaxCmdLen
        /\ (last.op = "set" /\ IsOk(last.res)) =>
              KvGet(store, last.key).res = Res("Some", last.val)

(***************************************************************************)
(* Claims about get.                                                       *)
(***************************************************************************)
\* C14: get(k) leaves the result of every later call as it would have been
\* without it: the same get again, and get, set and remove of any key.
C14_GetDoesNotTransition ==
    (handle = "kvs" /\ ~store.poisoned) =>
        \A k \in Keys :
            LET after == KvGet(store, k).st
            IN /\ KvGet(after, k).res = KvGet(store, k).res
               /\ \A k2 \in Keys :
                     /\ KvGet(after, k2).res = KvGet(store, k2).res
                     /\ KvRemove(after, k2).res = KvRemove(store, k2).res
                     /\ \A v \in Vals : KvSet(after, k2, v).res = KvSet(store, k2, v).res

\* C15: a handler given a connection with one well-formed request decodes
\* exactly one request, makes exactly one engine call, sends exactly one
\* response and closes the connection; the response is Ok(Some(v)) or Ok(None)
\* for a Get, Success for a Set or Rm that succeeded, and Err when the engine
\* call of a Get or Set failed.
C15_OneRequestOneResponse ==
    \A c \in 1..MaxConns :
        (conn[c].cli \in {"sent", "got"} /\ conn[c].srv \in {"done", "panicked"}) =>
            /\ conn[c].ndec = 1
            /\ conn[c].ncall = 1
            /\ conn[c].nresp = 1
            /\ conn[c].srv = "done"
            /\ (conn[c].query.op = "get" /\ conn[c].eres.kind = "Some") =>
                  conn[c].resp = Res("Ok", conn[c].eres.val)
            /\ (conn[c].query.op = "get" /\ conn[c].eres.kind = "None") =>
                  conn[c].resp = Res("Ok", "none")
            /\ (conn[c].query.op \in {"set", "rm"} /\ conn[c].eres.kind = "Ok") =>
                  conn[c].resp = Res("Success", "-")
            /\ (conn[c].query.op \in {"get", "set"}
                  /\ conn[c].eres.kind \notin {"Some", "None", "Ok"}) =>
                  conn[c].resp = Res("Err", "-")

(***************************************************************************)
(* Claims about the client.                                                *)
(***************************************************************************)
\* A client method has returned after reading a response.
Answered(c) == conn[c].cli = "got" /\ conn[c].srv = "done"

\* The part of C16 that does not depend on the method: one request framed,
\* one response read, Ok(opt) to Ok(opt) for get, Success to Ok(()) for set
\* and remove, Err to Err(ServerError).
ClientMapsCommon(c) ==
    /\ conn[c].nsent = 1
    /\ conn[c].nread = 1
    /\ (conn[c].query.op = "get" /\ conn[c].resp.kind = "Ok") =>
          conn[c].cres = (IF conn[c].resp.val = "none" THEN Res("None", "-")
                          ELSE Res("Some", conn[c].resp.val))
    /\ (conn[c].query.op \in {"set", "rm"} /\ conn[c].resp.kind = "Success") =>
          conn[c].cres = Res("Ok", "-")
    /\ conn[c].resp.kind = "Err" => conn[c].cres = Res("ServerError", "-")

\* C16 as stated: each of get, set and remove frames one request, reads one
\* response and maps Ok(opt) to Ok(opt) for get, Success to Ok(()) for set
\* and remove, KeyNotFound to Err(KeyNotFound), and Err to Err(ServerError).
C16_ClientMapsResponse ==
    \A c \in 1..MaxConns :
        Answered(c) =>
            /\ ClientMapsCommon(c)
            /\ conn[c].resp.kind = "KeyNotFound" => conn[c].cres = Res("KeyNotFound", "-")

\* C16 amended: KeyNotFound is mapped to Err(KeyNotFound) by get and remove;
\* set has no arm for it and reaches unreachable!().
C16_ClientMapsResponseAmended ==
    \A c \in 1..MaxConns :
        Answered(c) =>
            /\ ClientMapsCommon(c)
            /\ (conn[c].query.op \in {"get", "rm"} /\ conn[c].resp.kind = "KeyNotFound") =>
                  conn[c].cres = Res("KeyNotFound", "-")
            /\ (conn[c].query.op = "set" /\ conn[c].resp.kind = "KeyNotFound") =>
                  conn[c].cres = Res("Unreachable", "-")

\* A remove answered KeyNotFound and a set answered Err have both returned.
C16_Witness ==
    /\ Answered(1) /\ Answered(2)
    /\ conn[1].query.op = "rm" /\ conn[1].resp.kind = "KeyNotFound"
    /\ conn[1].cres = Res("KeyNotFound", "-")
    /\ conn[2].query.op = "set" /\ conn[2].resp.kind = "Err"
    /\ conn[2].cres = Res("ServerError", "-")

(***************************************************************************)
(* Claims about the two engines.                                           *)
(***************************************************************************)
\* C17: after any sequence of get, set and remove calls made on a fresh
\* KvStore and on a fresh SledKvsEngine, the next call returns the same
\* result on both: the same value or absence for get, success or the same
\* error kind for set and remove.
C17_EnginesSubstitutable ==
    \A k \in Keys :
        /\ KvGet(store, k).res = SledGet(db, k).res
        /\ KvRemove(store, k).res = SledRemove(db, k).res
        /\ \A v \in Vals : KvSet(store, k, v).res = SledSet(db, k, v).res

(***************************************************************************)
(* Claims about failures on single connections and about stopping.         *)
(***************************************************************************)
\* A codec or framing failure has happened on connection c: the peer wrote no
\* decodable request, and receive has returned the error to handle.
FramingFailed(c) == conn[c].cli \in {"bad", "reset"} /\ conn[c].srv = "panicked"

\* C18: when a framing failure has happened on one connection and nobody has
\* asked the server to stop, the server process and its accept loop still run
\* and no other connection has been closed by the end of either.
C18_FramingFailureIsLocal ==
    \A c \in 1..MaxConns :
        (FramingFailed(c) /\ ~stop_flag) =>
            /\ acc \in {"accept", "check"}
            /\ \A d \in 1..MaxConns \ {c} : conn[d].srv \notin {"dropped", "lost"}

\* C19: every connection the accept loop handed to the pool is handled to
\* completion (request decoded, engine called, response written), also when
\* stop_server() was called or the server dropped while its job was queued
\* or running: once stop has been requested, a connection whose client sent a
\* well-formed request and whose job is no longer queued has its response.
C19_HandedOverIsCompleted ==
    \A c \in 1..MaxConns :
        (stop_flag /\ conn[c].cli \in {"sent", "got"}
            /\ conn[c].srv \in {"done", "panicked", "lost"}) =>
            /\ conn[c].srv = "done"
            /\ conn[c].ndec = 1 /\ conn[c].ncall = 1 /\ conn[c].nresp = 1

(***************************************************************************)
(* Claims about the end of the thread pool.                                *)
(***************************************************************************)
\* No thread of the pool is left: every thread that was started has ended.
AllWorkersExited == \A t \in 1..MaxThreads : wk[t].pc \in {"exit", "unborn"}

\* C20: after the SharedQueueThreadPool handle is dropped, every worker
\* thread eventually exits, the replacements spawned by panicking workers
\* included: the queued jobs are run and no thread stays blocked in recv().
C20_WorkersExitAfterDrop == (~pool_alive) ~> AllWorkersExited

\* The pool was dropped with jobs queued; all of them were run, one of them
\* panicked, and the workers and the replacement have all exited.
C20_Witness ==
    /\ ~pool_alive
    /\ AllWorkersExited
    /\ pq = <<>>
    /\ Len(submitted) = MaxJobs
    /\ \A j \in 1..MaxJobs : runs[j] = 1
    /\ \E j \in 1..MaxJobs : submitted[j] = "panic"
    /\ \E t \in (PoolSize + 1)..MaxThreads : wk[t].pc = "exit"

(***************************************************************************)
(* Claims about the wire codec.                                            *)
(***************************************************************************)
\* C21: for every Query and every Response, decoding the frame that send
\* wrote for it yields the same value, and the 4-byte big-endian length
\* prefix of the frame equals the byte length of its JSON payload.
C21_FrameRoundTrip ==
    wire_got # NoGot =>
        /\ wire_got = Decoded(wire_msg)
        /\ ByteLen(wire.body) = [hi |-> 0, lo |-> FromBeBytes(wire.len)]

(***************************************************************************)
(* Claims about the index.                                                 *)
(***************************************************************************)
\* The record at an index location: in wal_active when file_index is the
\* number of segments, otherwise in the segment file_index names.
Deref(st, li) ==
    IF li.file_index = Len(st.wal_logs) THEN ReadAt(st.active, li.offset, li.len)
    ELSE IF li.file_index < Len(st.wal_logs)
         THEN ReadAt(st.wal_logs[li.file_index + 1], li.offset, li.len)
         ELSE [ok |-> "Err", cmd |-> NoCmd]

\* C22: after recovery and after every set, remove and compaction, for every
\* key k in the index the record at its location is a Set(k, v) record and v
\* is the current value of k.
C22_IndexPointsAtCurrentSet ==
    (handle = "kvs" /\ ~store.poisoned /\ last.op \in {"open", "set", "remove"}) =>
        \A k \in Keys :
            store.key_index[k].has =>
                LET r == Deref(store, store.key_index[k])
                IN /\ r.ok = "Ok"
                   /\ r.cmd.op = "Set"
                   /\ r.cmd.key = k
                   /\ acked[k] # "fail" => r.cmd.val = acked[k]

\* C23: no call has indexed the segment list out of bounds, which is the
\* only panic of the engine and leaves the store poisoned, and for every
\* location in the index read_from_log reads the record from the file that
\* file_index names: wal_active when file_index is the number of segments,
\* otherwise the segment with that index.
C23_ReadsFileOfLocation ==
    handle = "kvs" =>
        /\ ~store.poisoned
        /\ \A k \in Keys :
              store.key_index[k].has =>
                  ReadFromLog(store, store.key_index[k])
                      = Deref(store, store.key_index[k])

(***************************************************************************)
(* Claims about readers during compaction.                                 *)
(***************************************************************************)
\* C24: a get that was in progress while another caller's set or remove ran
\* a compaction does not fail, and when no write of its key overlapped it, it
\* returns the value the key had: Some(v) after set(k, v), None after
\* remove(k) and for a key never written.
C24_GetAcrossCompaction ==
    \A t \in Callers :
        (th[t].pc = "done" /\ th[t].op = "get" /\ th[t].cmp) =>
            /\ th[t].res.kind \in {"Some", "None"}
            /\ th[t].exp # "?" =>
                  th[t].res = (IF th[t].exp = "none" THEN Res("None", "-")
                               ELSE Res("Some", th[t].exp))

(***************************************************************************)
(* Claims about the redundancy counter.                                    *)
(***************************************************************************)
\* What a set or remove that starts in state st and gives r does to the
\* counter: an append over an existing index entry has incremented it, by
\* the time of the compaction if one ran; once it exceeds the threshold a
\* compaction has run, and has reset it if the call succeeded; and a call
\* that succeeded leaves it at most at the threshold.
CounterKept(st, key, r) ==
    /\ st.key_index[key].has =>
          IF r.cmps = <<>> THEN r.st.active_redundant = st.active_redundant + 1
          ELSE r.cmps[1].pre.active_redundant = st.active_redundant + 1
    /\ (st.key_index[key].has /\ st.active_redundant + 1 > COMPACTION_THRESHOLD) =>
          /\ r.cmps # <<>>
          /\ r.res.kind = "Ok" => r.st.active_redundant = 0
    /\ r.res.kind = "Ok" => r.st.active_redundant <= COMPACTION_THRESHOLD

\* C25: in every state a session reaches, the next set or remove keeps the
\* counter as described: incremented on every overwrite of an index entry,
\* compacted and reset to 0 as soon as it exceeds the threshold, and at most
\* the threshold after a successful call.
C25_RedundancyCounterBounded ==
    (handle = "kvs" /\ ~store.poisoned) =>
        \A k \in Keys :
            /\ CounterKept(store, k, KvRemove(store, k))
            /\ \A v \in Vals : CounterKept(store, k, KvSet(store, k, v))

(***************************************************************************)
(* Claims about what remove and get leave alone.                           *)
(***************************************************************************)
\* The newest record of key k in the directory, as "m"/"h" (Set), "rm" or
\* "none".
LatestInDir(st, k) ==
    IF ValueIn(st.active, k) # "none" THEN ValueIn(st.active, k)
    ELSE ValueInLogs(st.wal_logs, Len(st.wal_logs), k)

\* The call that took the store from st to st2 wrote to the log files.
FilesWritten(st, st2) == st2.active # st.active \/ st2.wal_logs # st.wal_logs

\* C26: in every state a session reaches, a remove(k) that returns
\* KeyNotFound has written to no log file, and a remove(k) that writes to
\* the log finds the key present: the newest record of k is a Set.
C26_RemoveRejectsAbsentKey ==
    (handle = "kvs" /\ ~store.poisoned) =>
        \A k \in Keys :
            LET r == KvRemove(store, k)
            IN /\ r.res.kind = "KeyNotFound" => ~FilesWritten(store, r.st)
               /\ FilesWritten(store, r.st) => LatestInDir(store, k) \in Vals

GetOnlyImports(st, k, g) ==
    /\ st.key_index[k].has =>
          (g.key_index = st.key_index /\ g.index_scanned = st.index_scanned)
    /\ \A k2 \in Keys : st.key_index[k2].has => g.key_index[k2] = st.key_index[k2]
    /\ g.index_scanned <= st.index_scanned
    /\ st.index_scanned = 0 => g.key_index = st.key_index
    /\ ~FilesWritten(st, g)
    /\ g.active_redundant = st.active_redundant

PanickedJobs == {j \in 1..Len(submitted) : submitted[j] = "panic" /\ runs[j] > 0}

\* C28: while the pool handle is alive exactly PoolSize threads hold a
\* receiver of the queue, whatever jobs have completed or panicked; and the
\* threads ever started are the PoolSize of new plus one replacement for
\* each job that panicked and whose worker has finished unwinding: none was
\* spawned by a worker that exited without a panic.
C28_WorkerCountKept ==
    /\ pool_alive => Cardinality(Receivers(wk)) = PoolSize
    /\ Cardinality({t \in 1..MaxThreads : wk[t].pc # "unborn"})
          = PoolSize + Cardinality(PanickedJobs)
               - Cardinality({t \in 1..MaxThreads : wk[t].pc = "unwind"})

\* The pool is alive, a job has panicked and its worker has exited, the
\* replacement waits on the queue and a later job has been run.
C28_Witness ==
    /\ pool_alive
    /\ \E t \in 1..PoolSize : wk[t].pc = "exit"
    /\ \E t \in (PoolSize + 1)..MaxThreads : wk[t].pc = "recv"
    /\ \E j \in 1..Len(submitted) : submitted[j] = "ok" /\ runs[j] = 1
    /\ PanickedJobs # {}
    /\ pq = <<>>

\* C29: every job that spawn has queued is run exactly once: no job is ever
\* run twice, whether it returned or panicked, and every queued job, those
\* behind panicking jobs included, is eventually run.
C29_EveryJobRunsOnce ==
    /\ [](\A j \in 1..MaxJobs : runs[j] <= 1)
    /\ \A j \in 1..MaxJobs : (Len(submitted) >= j) ~> (runs[j] = 1)

\* As many panicking jobs as there are workers were queued ahead of a job
\* that returns, and every job has been run once.
C29_Witness ==
    /\ Len(submitted) = MaxJobs
    /\ \A j \in 1..PoolSize : submitted[j] = "panic"
    /\ submitted[MaxJobs] = "ok"
    /\ \A j \in 1..MaxJobs : runs[j] = 1
    /\ \A t \in 1..MaxThreads : wk[t].pc # "unwind"

(***************************************************************************)
(* KvStore::open on a directory of whole files, followed by gets.  The     *)
(* segments are files as minor_compact writes them: at most one record per *)
(* key, in the order of the keys, a record joining a file only while the   *)
(* file stays under FILE_SIZE_LIMIT.  wal_active is what the last rename   *)
(* and the appends after it left.                                          *)
(***************************************************************************)
\* A key that sorts before the keys the gets ask for.
OtherKey == "0"

DirKeyOrder == <<OtherKey>> \o KeyOrder

KeyRank(k) == CHOOSE i \in 1..Len(DirKeyOrder) : DirKeyOrder[i] = k

\* The records of the directory: values of one size, and removals.
DirRecs ==
    {SetCmd(DirKeyOrder[i], "m") : i \in 1..Len(DirKeyOrder)}
        \cup {RmCmd(DirKeyOrder[i]) : i \in 1..Len(DirKeyOrder)}

\* Number of records in a file of the directory, and of segments.
MaxRecs == 2

MaxSegs == 2

SegmentFiles ==
    {f \in UNION {[1..n -> DirRecs] : n \in 1..MaxRecs} :
        \A i \in 2..Len(f) :
            /\ KeyRank(f[i - 1].key) < KeyRank(f[i].key)
            /\ OffsetOf(f, i) + CmdLen(f[i]) < FILE_SIZE_LIMIT}

ReopenDirs ==
    {[EmptyDir EXCEPT !.wal_logs = logs, !.active = act] :
        logs \in UNION {[1..n -> SegmentFiles] : n \in 0..MaxSegs},
        act \in UNION {[1..n -> DirRecs] : n \in 1..MaxRecs}}

InitReopen ==
    /\ store \in {KvOpen(d) : d \in ReopenDirs}
    /\ engine_file = "kvs"
    /\ handle = "kvs"
    /\ owner = "KvStore"
    /\ db = [k \in Keys |-> NoValue]
    /\ last = NoOp
    /\ cmps = <<>>
    /\ acked = [k \in Keys |-> "none"]
    /\ expect = [k \in Keys |-> "none"]
    /\ kept = [k \in Keys |-> "none"]
    /\ written = {}
    /\ nops = 0
    /\ InitPool /\ InitNet /\ InitConc /\ InitCodec

SpecReopen == InitReopen /\ [][DoGet]_vars

(***************************************************************************)
(* Claims about the lazy import after a reopen.                            *)
(***************************************************************************)
\* The records of the directory in the order they were written: the segments
\* wal_00000.log, wal_00001.log, ... and then wal_active.
RECURSIVE AllRecords(_, _)
AllRecords(logs, active) ==
    IF logs = <<>> THEN active ELSE Head(logs) \o AllRecords(Tail(logs), active)

\* Replaying records from the first to the last, the last record of a key
\* winning: v for Set(k, v), "rm" for Rm(k), "none" for a key never written.
RECURSIVE ReplayOf(_, _, _)
ReplayOf(recs, k, sofar) ==
    IF recs = <<>> THEN sofar
    ELSE ReplayOf(Tail(recs), k,
                  IF Head(recs).key # k THEN sofar
                  ELSE IF Head(recs).op = "Set" THEN Head(recs).val ELSE "rm")

\* What get returns for a key whose replayed state is r.
GetOfReplay(r) == IF r \in {"none", "rm"} THEN Res("None", "-") ELSE Res("Some", r)

\* C30: after KvStore::open on a directory of segments and wal_active, every
\* get, whatever gets were made before it, returns what replaying all
\* records of all files from the oldest segment to wal_active gives for
\* its key.
C30_LazyImportIsReplay ==
    last.op = "get" =>
        last.res = GetOfReplay(ReplayOf(AllRecords(store.wal_logs, store.active),
                                        last.key, "none"))

(***************************************************************************)
(* Claims about the stop flag and the accept loop.                         *)
(***************************************************************************)
\* C31: the stop flag, once set, stays set; and an acceptor that holds an
\* accepted connection while the flag is set gives no connection to the
\* pool: its next step leaves the loop.  Every connection accepted after
\* the flag was set is checked with the flag set.
C31_NoSpawnAfterStop ==
    [][/\ stop_flag => stop_flag'
       /\ (stop_flag /\ acc = "check") =>
             /\ acc' \in {"check", "done", "aborted"}
             /\ \A c \in 1..MaxConns :
                   conn'[c].srv = "queued" => conn[c].srv = "queued"]_vars

\* stop_server has returned, its own connection was refused because the
\* listener was not bound yet, and the acceptor has since accepted the
\* connection of a client, which it is about to check.
C31_Witness ==
    /\ stop_flag
    /\ stops >= 1
    /\ acc = "check"
    /\ acc_cur # 0
    /\ \A i \in 1..Len(backlog) : backlog[i] # 0

\* C32: spawn never panics while the pool handle is alive: the channel has
\* a receiver in every state, a worker unwinding from a panic holding its
\* own until the replacement has a clone, so send never fails.
C32_SpawnNeverPanics ==
    /\ ~spawn_panicked
    /\ pool_alive => Receivers(wk) # {}

\* Every thread that holds a receiver is unwinding from a panic, and a job
\* spawn has sent is waiting in the channel.
C32_Witness ==
    /\ pool_alive
    /\ \A t \in Receivers(wk) : wk[t].pc = "unwind"
    /\ pq # <<>>
    /\ Len(submitted) = MaxJobs
    /\ ~spawn_panicked

(***************************************************************************)
(* Claims about the responses the handler sends and the client's arms.     *)
(***************************************************************************)
\* The Response variants the client method of a query has an arm for.
HandledBy(op) ==
    IF op = "get" THEN {"Ok", "KeyNotFound", "Err"}
    ELSE IF op = "set" THEN {"Success", "Err"}
    ELSE {"Success", "KeyNotFound", "Err"}

\* C33: every response handle has sent is one the client method of its
\* query has an arm for (Get: Ok or Err; Set: Success or Err; Rm: Success,
\* KeyNotFound or Err), and no client that read a response of the server
\* reached unreachable!().
C33_ResponsesAreHandled ==
    \A c \in 1..MaxConns :
        conn[c].srv = "done" =>
            /\ conn[c].resp.kind \in HandledBy(conn[c].query.op)
            /\ conn[c].query.op = "get" => conn[c].resp.kind \in {"Ok", "Err"}
            /\ conn[c].cli = "got" => conn[c].cres.kind # "Unreachable"

\* A set the engine failed and a remove of an absent key were both answered
\* by the server, and both clients have matched the response.
C33_Witness ==
    /\ Answered(1) /\ Answered(2)
    /\ conn[1].query.op = "set" /\ conn[1].eres.kind \notin {"Ok", "none"}
    /\ conn[2].query.op = "rm" /\ conn[2].eres.kind = "KeyNotFound"
    /\ conn[1].cres = Res("ServerError", "-")
    /\ conn[2].cres = Res("ServerError", "-")

(***************************************************************************)
(* Claims about an open that is refused.                                   *)
(***************************************************************************)
\* C34: an open that fails with WrongEngine changes nothing in the
\* directory: .engine keeps its content, the segments and wal_active keep
\* their records, and the sled database keeps its entries.
C34_RefusedOpenKeepsDirectory ==
    [][(nops' = nops + 1 /\ last'.op = "open" /\ last'.res.kind = "WrongEngine") =>
          /\ engine_file' = engine_file
          /\ store'.wal_logs = store.wal_logs
          /\ store'.active = store.active
          /\ db' = db]_vars

\* SledKvsEngine::open was refused on a directory whose wal_active holds
\* records of a KvStore.
C34_Witness ==
    /\ last.op = "open"
    /\ last.val = "Sled"
    /\ last.res.kind = "WrongEngine"
    /\ engine_file = "kvs"
    /\ store.active # <<>>

====
